---- MODULE Spec2Model ----
(***************************************************************************)
(* A model of CachingSystem.cpp: the two eviction policies, CacheLevel and *)
(* MultilevelCacheSystem.  Every public call is one atomic step: each      *)
(* call holds the object's mutex from its first to its last statement.     *)
(***************************************************************************)
EXTENDS Integers, Sequences, FiniteSets, TLC

\* ------------------------------------------------------------------ bounds
\* At most MaxCalls calls are made on an object called on its own.
MaxCalls == 6
\* At most MaxLevels levels are appended to the chain.
MaxLevels == 2
\* A call is taken only while every LFU currentTime stays <= MaxTime.
MaxTime == 3

\* ------------------------------------------------------------- input sets
Keys == {"A", "B", "C"}
\* "" is the empty std::string, a value a caller may store.
Values == {"", "x"}
\* The sizes passed to addCacheLevel (an int: nothing rejects 0).
Capacities == {0, 1, 2}
\* "BOGUS" stands for every string that is neither "LRU" nor "LFU".
PolicyNames == {"LRU", "LFU", "BOGUS"}
\* The argument pairs of addCacheLevel: every size with a recognized name,
\* and one call with an unrecognized name (a level without a policy behaves
\* the same whatever its size: every put and every get hit on it ends the
\* process).
LevelArgs ==
    {<<size, p>> : size \in Capacities, p \in PolicyNames \ {"BOGUS"}}
    \cup {<<2, "BOGUS">>}
RemoveArgs == (0 - 1) .. (MaxLevels + 1)

INT_MAX == 2147483647

\* ------------------------------------------------------- map/list helpers
\* An empty unordered_map.
EmptyMap == [x \in {} |-> 0]

\* m[k] = v on an unordered_map: inserts or overwrites.
MapSet(m, k, v) == [x \in (DOMAIN m) \cup {k} |-> IF x = k THEN v ELSE m[x]]

\* m.erase(k) on an unordered_map: no effect when k is absent.
MapErase(m, k) == [x \in (DOMAIN m) \ {k} |-> m[x]]

\* The index of the last node of list s that holds k (0 when there is none).
LastIndexOf(s, k) ==
    IF \E i \in 1..Len(s) : s[i] = k
    THEN CHOOSE i \in 1..Len(s) : s[i] = k /\ \A j \in (i+1)..Len(s) : s[j] # k
    ELSE 0

\* list::erase(iterator) for the node at index i.
ListErase(s, i) == [j \in 1..(Len(s) - 1) |-> IF j < i THEN s[j] ELSE s[j + 1]]

\* All orders in which a range-for may visit the keys of an unordered_map.
RECURSIVE IterationOrders(_)
IterationOrders(S) ==
    IF S = {} THEN {<<>>}
    ELSE UNION {{<<k>> \o t : t \in IterationOrders(S \ {k})} : k \in S}

\* ---------------------------------------------------------------- policies
\* unique_ptr<EvictionPolicy> left empty: no policy object.
NullPolicy ==
    [kind |-> "NONE", accessOrder |-> <<>>, cacheMap |-> {},
     frequencyMap |-> EmptyMap, keyOrder |-> EmptyMap, currentTime |-> 0]

\* A freshly constructed LRUEvictionPolicy. cacheMap is kept as its key set:
\* the iterator stored for a key always designates the key's last node.
NewLRU == [NullPolicy EXCEPT !.kind = "LRU"]

\* A freshly constructed LFUEvictionPolicy.
NewLFU == [NullPolicy EXCEPT !.kind = "LFU"]

\* Mutant: a key already tracked keeps its position in the list.
LRU_access_noMove(p, key) ==
    IF key \in p.cacheMap THEN p
    ELSE [p EXCEPT !.accessOrder = Append(@, key), !.cacheMap = @ \cup {key}]

LRU_access(p, key) ==
    LET erased == IF key \in p.cacheMap
                  THEN ListErase(p.accessOrder, LastIndexOf(p.accessOrder, key))
                  ELSE p.accessOrder
    IN [p EXCEPT !.accessOrder = Append(erased, key),
                 !.cacheMap = @ \cup {key}]

\* The outcomes of LRUEvictionPolicy::evict: records [crashed, pol, ret].
\* On an empty list front() and pop_front() are undefined: the process dies,
\* or some key is read from the sentinel node and the call goes on.
LRU_evict(p) ==
    IF p.accessOrder = <<>>
    THEN {[crashed |-> TRUE, pol |-> p, ret |-> ""]}
         \cup {[crashed |-> FALSE, pol |-> p, ret |-> g] : g \in Keys \cup {""}}
    ELSE LET leastRecent == Head(p.accessOrder)
         IN {[crashed |-> FALSE,
              pol |-> [p EXCEPT !.accessOrder = Tail(@),
                                !.cacheMap = @ \ {leastRecent}],
              ret |-> leastRecent]}

\* Mutant: the sequence counter is read but not advanced.
LFU_access_sameTime(p, key) ==
    LET old == IF key \in DOMAIN p.frequencyMap THEN p.frequencyMap[key] ELSE 0
    IN [p EXCEPT !.frequencyMap = MapSet(@, key, old + 1),
                 !.keyOrder = MapSet(@, key, p.currentTime)]

LFU_access(p, key) ==
    LET old == IF key \in DOMAIN p.frequencyMap THEN p.frequencyMap[key] ELSE 0
    IN [p EXCEPT !.frequencyMap = MapSet(@, key, old + 1),
                 !.keyOrder = MapSet(@, key, p.currentTime),
                 !.currentTime = @ + 1]

\* Mutant: among equal counts the scan prefers the larger sequence number.
RECURSIVE LFU_scan_newestTie(_, _, _, _, _, _)
LFU_scan_newestTie(p, order, i, minFreq, minOrder, lfuKey) ==
    IF i > Len(order) THEN lfuKey
    ELSE LET key == order[i]
             freq == p.frequencyMap[key]
             ord == IF key \in DOMAIN p.keyOrder THEN p.keyOrder[key] ELSE 0
         IN IF freq < minFreq \/ (freq = minFreq /\ ord > minOrder)
            THEN LFU_scan_newestTie(p, order, i + 1, freq, ord, key)
            ELSE LFU_scan_newestTie(p, order, i + 1, minFreq, minOrder, lfuKey)

\* The scan of LFUEvictionPolicy::evict over the keys in visiting order
\* `order`, from position i, with the running minimum (minFreq, minOrder, lfuKey).
RECURSIVE LFU_scan(_, _, _, _, _, _)
LFU_scan(p, order, i, minFreq, minOrder, lfuKey) ==
    IF i > Len(order) THEN lfuKey
    ELSE LET key == order[i]
             freq == p.frequencyMap[key]
             ord == IF key \in DOMAIN p.keyOrder THEN p.keyOrder[key] ELSE 0
         IN IF freq < minFreq \/ (freq = minFreq /\ ord < minOrder)
            THEN LFU_scan(p, order, i + 1, freq, ord, key)
            ELSE LFU_scan(p, order, i + 1, minFreq, minOrder, lfuKey)

\* The outcomes of LFUEvictionPolicy::evict, one per visiting order of the map.
LFU_evict(p) ==
    {LET lfuKey == LFU_scan(p, order, 1, INT_MAX, INT_MAX, "")
     IN [crashed |-> FALSE,
         pol |-> [p EXCEPT !.frequencyMap = MapErase(@, lfuKey),
                           !.keyOrder = MapErase(@, lfuKey)],
         ret |-> lfuKey]
     : order \in IterationOrders(DOMAIN p.frequencyMap)}

\* evictionPolicy->access(key), a virtual call on a non-null policy.
access(p, key) == IF p.kind = "LRU" THEN LRU_access(p, key) ELSE LFU_access(p, key)

\* evictionPolicy->evict(): through a null pointer the call is undefined and
\* the process dies.
evict(p) ==
    CASE p.kind = "LRU" -> LRU_evict(p)
      [] p.kind = "LFU" -> LFU_evict(p)
      [] OTHER -> {[crashed |-> TRUE, pol |-> p, ret |-> ""]}

\* The keys a policy tracks.
Tracked(p) ==
    CASE p.kind = "LRU" -> {p.accessOrder[i] : i \in 1..Len(p.accessOrder)}
      [] p.kind = "LFU" -> DOMAIN p.frequencyMap
      [] OTHER -> {}

\* -------------------------------------------------------------- CacheLevel
\* CacheLevel(size, evictionPolicy)
NewLevel(size, policy) == [size |-> size, data |-> EmptyMap, evictionPolicy |-> policy]

\* Mutant: the capacity test written with > instead of >=.
SizeReached_gt(n, size) == IF size < 0 THEN FALSE ELSE n > size

\* Mutant: the capacity test fires one entry early.
SizeReached_early(n, size) == IF size < 0 THEN FALSE ELSE n + 1 >= size

\* data.size() >= size: size is converted to size_t, so a negative size
\* compares as a value above every possible map size.
SizeReached(n, size) == IF size < 0 THEN FALSE ELSE n >= size

\* Mutant: a hit returns the value without telling the policy.
CacheLevel_get_noAccess(level, key) ==
    IF key \in DOMAIN level.data
    THEN IF level.evictionPolicy.kind = "NONE"
         THEN {[crashed |-> TRUE, level |-> level, ret |-> ""]}
         ELSE {[crashed |-> FALSE, level |-> level, ret |-> level.data[key]]}
    ELSE {[crashed |-> FALSE, level |-> level, ret |-> ""]}

\* Mutant: the policy is told about the key whether or not the level holds it.
CacheLevel_get_accessOnMiss(level, key) ==
    IF level.evictionPolicy.kind = "NONE"
    THEN IF key \in DOMAIN level.data
         THEN {[crashed |-> TRUE, level |-> level, ret |-> ""]}
         ELSE {[crashed |-> FALSE, level |-> level, ret |-> ""]}
    ELSE {[crashed |-> FALSE,
           level |-> [level EXCEPT !.evictionPolicy = access(@, key)],
           ret |-> IF key \in DOMAIN level.data THEN level.data[key] ELSE ""]}

\* The outcomes of CacheLevel::get: records [crashed, level, ret].
CacheLevel_get(level, key) ==
    IF key \in DOMAIN level.data
    THEN IF level.evictionPolicy.kind = "NONE"
         THEN {[crashed |-> TRUE, level |-> level, ret |-> ""]}
         ELSE {[crashed |-> FALSE,
                level |-> [level EXCEPT !.evictionPolicy = access(@, key)],
                ret |-> level.data[key]]}
    ELSE {[crashed |-> FALSE, level |-> level, ret |-> ""]}

\* Mutant: data.insert({key, value}) instead of data[key] = value, which keeps
\* the old value of a key already present.
CacheLevel_put_insertOnly(level, key, value) ==
    LET full == SizeReached(Cardinality(DOMAIN level.data), level.size)
        evs == IF full THEN evict(level.evictionPolicy)
               ELSE {[crashed |-> FALSE, pol |-> level.evictionPolicy, ret |-> ""]}
    IN {IF e.crashed \/ e.pol.kind = "NONE"
        THEN [crashed |-> TRUE, level |-> level, evicted |-> <<>>]
        ELSE LET d == IF full THEN MapErase(level.data, e.ret) ELSE level.data
             IN [crashed |-> FALSE,
                 level |-> [level EXCEPT
                              !.data = IF key \in DOMAIN d THEN d
                                       ELSE MapSet(d, key, value),
                              !.evictionPolicy = access(e.pol, key)],
                 evicted |-> IF full THEN <<e.ret>> ELSE <<>>]
        : e \in evs}

\* Mutant: the victim is not erased from data.
CacheLevel_put_noErase(level, key, value) ==
    LET full == SizeReached(Cardinality(DOMAIN level.data), level.size)
        evs == IF full THEN evict(level.evictionPolicy)
               ELSE {[crashed |-> FALSE, pol |-> level.evictionPolicy, ret |-> ""]}
    IN {IF e.crashed \/ e.pol.kind = "NONE"
        THEN [crashed |-> TRUE, level |-> level, evicted |-> <<>>]
        ELSE [crashed |-> FALSE,
              level |-> [level EXCEPT !.data = MapSet(@, key, value),
                                      !.evictionPolicy = access(e.pol, key)],
              evicted |-> IF full THEN <<e.ret>> ELSE <<>>]
        : e \in evs}

\* Mutant: a key already present is overwritten without an eviction.
CacheLevel_put_keepOnOverwrite(level, key, value) ==
    LET full == SizeReached(Cardinality(DOMAIN level.data), level.size)
                /\ key \notin DOMAIN level.data
        evs == IF full THEN evict(level.evictionPolicy)
               ELSE {[crashed |-> FALSE, pol |-> level.evictionPolicy, ret |-> ""]}
    IN {IF e.crashed \/ e.pol.kind = "NONE"
        THEN [crashed |-> TRUE, level |-> level, evicted |-> <<>>]
        ELSE [crashed |-> FALSE,
              level |-> [level EXCEPT
                           !.data = MapSet(IF full THEN MapErase(@, e.ret) ELSE @,
                                           key, value),
                           !.evictionPolicy = access(e.pol, key)],
              evicted |-> IF full THEN <<e.ret>> ELSE <<>>]
        : e \in evs}

\* The outcomes of CacheLevel::put: records [crashed, level, evicted], where
\* evicted is the sequence of victims the call removed (none or one).
CacheLevel_put(level, key, value) ==
    LET full == SizeReached(Cardinality(DOMAIN level.data), level.size)
        evs == IF full THEN evict(level.evictionPolicy)
               ELSE {[crashed |-> FALSE, pol |-> level.evictionPolicy, ret |-> ""]}
    IN {IF e.crashed \/ e.pol.kind = "NONE"
        THEN [crashed |-> TRUE, level |-> level, evicted |-> <<>>]
        ELSE [crashed |-> FALSE,
              level |-> [level EXCEPT
                           !.data = MapSet(IF full THEN MapErase(@, e.ret) ELSE @,
                                           key, value),
                           !.evictionPolicy = access(e.pol, key)],
              evicted |-> IF full THEN <<e.ret>> ELSE <<>>]
        : e \in evs}

CacheLevel_contains(level, key) == key \in DOMAIN level.data

CacheLevel_update(level, key, value) == [level EXCEPT !.data = MapSet(@, key, value)]

\* ---------------------------------------------------- MultilevelCacheSystem
VARIABLES
    cacheLevels,   \* vector<unique_ptr<CacheLevel>>: index 1 here is index 0 there
    crashed,       \* the process died in an undefined operation
    last,          \* the last call made, with what it returned
    policyObj,     \* an EvictionPolicy object called on its own
    levelObj,      \* a CacheLevel object called on its own
    clock,         \* the number of calls made on policyObj or levelObj
    touch,         \* key -> the clock value of its latest access, per tracked key
    count,         \* key -> its accesses since it was last (re)inserted
    threads,       \* thread -> the call it is in and its position in the code
    mtx,           \* MultilevelCacheSystem::mtx: the thread that holds it, or 0
    levelMtx,      \* CacheLevel::mtx of each level: its holder, or 0
    policyMtx,     \* the mtx of each level's policy: its holder, or 0
    snap           \* the chain as the holder of the system mutex found it

vars == <<cacheLevels, crashed, last, policyObj, levelObj, clock, touch, count,
          threads, mtx, levelMtx, policyMtx, snap>>

\* The variables of the specification with threads.
threadVars == <<threads, mtx, levelMtx, policyMtx, snap>>

\* No thread: the calls are made one after the other by one caller.
NoThreads ==
    /\ threads = <<>>
    /\ mtx = 0
    /\ levelMtx = <<>>
    /\ policyMtx = <<>>
    /\ snap = <<>>

\* The variables of the single-object specification.
unitVars == <<policyObj, levelObj, clock, touch, count>>

\* op: the call; key, val, n: its arguments; ret, hit: what get returned and
\* the index of the level it returned from (-1: none); evicted: the victims
\* put removed; rt: for a get(key) that directly follows a returned
\* put(key, v) on a chain with a level, <<v>>; pr: for a get(key) that
\* directly follows a get(key) that returned v from index i > 0, <<v, i>>.
NoCall == [op |-> "none", key |-> "", val |-> "", n |-> 0, ret |-> "",
           hit |-> 0 - 1, evicted |-> <<>>, rt |-> <<>>, pr |-> <<>>]

\* The largest currentTime of any level: the counter the bound MaxTime caps.
RECURSIVE MaxClock(_)
MaxClock(levels) ==
    IF levels = <<>> THEN 0
    ELSE LET t == Head(levels).evictionPolicy.currentTime
             r == MaxClock(Tail(levels))
         IN IF t > r THEN t ELSE r

\* No object under test on its own.
NoUnit ==
    /\ policyObj = NullPolicy
    /\ levelObj = NewLevel(0, NullPolicy)
    /\ clock = 0
    /\ touch = EmptyMap
    /\ count = EmptyMap

\* A MultilevelCacheSystem as constructed: no levels.
Init ==
    /\ cacheLevels = <<>>
    /\ crashed = FALSE
    /\ last = NoCall
    /\ NoUnit
    /\ NoThreads

\* The policy addCacheLevel builds for a policy name.
MakePolicy(evictionPolicy) ==
    IF evictionPolicy = "LRU" THEN NewLRU
    ELSE IF evictionPolicy = "LFU" THEN NewLFU
    ELSE NullPolicy

addCacheLevel(size, evictionPolicy) ==
    /\ ~crashed
    /\ Len(cacheLevels) < MaxLevels
    /\ cacheLevels' = Append(cacheLevels, NewLevel(size, MakePolicy(evictionPolicy)))
    /\ last' = [NoCall EXCEPT !.op = "add"]
    /\ UNCHANGED <<crashed, unitVars, threadVars>>

\* Mutant: the index taken as 0-based.
RemoveLevel_zeroBased(levels, level) ==
    IF level >= 0 /\ level < Len(levels)
    THEN ListErase(levels, level + 1)
    ELSE levels

\* Mutant: an index in range removes the last level of the chain.
RemoveLevel_popBack(levels, level) ==
    IF level >= 1 /\ level <= Len(levels)
    THEN ListErase(levels, Len(levels))
    ELSE levels

\* The chain after removeCacheLevel(level).
RemoveLevel(levels, level) ==
    IF level >= 1 /\ level <= Len(levels)
    THEN ListErase(levels, level)
    ELSE levels

removeCacheLevel(level) ==
    /\ ~crashed
    /\ cacheLevels' = RemoveLevel(cacheLevels, level)
    /\ last' = [NoCall EXCEPT !.op = "remove", !.n = level]
    /\ UNCHANGED <<crashed, unitVars, threadVars>>

\* Mutant: the value is copied one level up only.
Promote_oneLevelUp(levels, i, key, value) ==
    [n \in 1..Len(levels) |->
        IF n = i THEN CacheLevel_update(levels[n], key, value) ELSE levels[n]]

\* The promotion loop of get: update(key, value) on every level before index i.
Promote(levels, i, key, value) ==
    [n \in 1..Len(levels) |->
        IF n - 1 < i THEN CacheLevel_update(levels[n], key, value) ELSE levels[n]]

\* The outcomes of the lookup loop of get from index i on:
\* records [crashed, levels, ret, hit], hit = -1 for a miss.
RECURSIVE GetFrom(_, _, _)
GetFrom(levels, i, key) ==
    IF i >= Len(levels)
    THEN {[crashed |-> FALSE, levels |-> levels, ret |-> "", hit |-> 0 - 1]}
    ELSE UNION {
        IF o.crashed
        THEN {[crashed |-> TRUE, levels |-> levels, ret |-> "", hit |-> 0 - 1]}
        ELSE LET ls == [levels EXCEPT ![i + 1] = o.level]
             IN IF o.ret # ""
                THEN {[crashed |-> FALSE, levels |-> Promote(ls, i, key, o.ret),
                       ret |-> o.ret, hit |-> i]}
                ELSE GetFrom(ls, i + 1, key)
        : o \in CacheLevel_get(levels[i + 1], key)}

get(key) ==
    /\ ~crashed
    /\ UNCHANGED <<unitVars, threadVars>>
    /\ \E o \in GetFrom(cacheLevels, 0, key) :
        /\ MaxClock(o.levels) <= MaxTime
        /\ crashed' = o.crashed
        /\ cacheLevels' = IF o.crashed THEN cacheLevels ELSE o.levels
        /\ last' = [NoCall EXCEPT !.op = "get", !.key = key, !.ret = o.ret,
                                  !.hit = o.hit,
                                  !.rt = IF last.op = "put" /\ last.key = key
                                            /\ cacheLevels # <<>>
                                         THEN <<last.val>> ELSE <<>>,
                                  !.pr = IF last.op = "get" /\ last.key = key
                                            /\ last.hit > 0
                                         THEN <<last.ret, last.hit>> ELSE <<>>]

\* Mutant: the victim of level 0 is written down into the next level.
PutOutcomes_demote(levels, key, value) ==
    IF levels = <<>>
    THEN {[crashed |-> c, levels |-> levels, evicted |-> <<>>] : c \in BOOLEAN}
    ELSE {[crashed |-> o.crashed,
           levels |-> [n \in 1..Len(levels) |->
                         IF n = 1 THEN o.level
                         ELSE IF n = 2 /\ o.evicted # <<>>
                              THEN CacheLevel_update(levels[n], o.evicted[1], "x")
                              ELSE levels[n]],
           evicted |-> o.evicted]
          : o \in CacheLevel_put(levels[1], key, value)}

\* Mutant: put writes the pair through to every level of the chain.
PutOutcomes_writeThrough(levels, key, value) ==
    IF levels = <<>>
    THEN {[crashed |-> c, levels |-> levels, evicted |-> <<>>] : c \in BOOLEAN}
    ELSE {[crashed |-> o.crashed,
           levels |-> [n \in 1..Len(levels) |->
                         IF n = 1 THEN o.level
                         ELSE CacheLevel_update(levels[n], key, value)],
           evicted |-> o.evicted]
          : o \in CacheLevel_put(levels[1], key, value)}

\* The outcomes of put: records [crashed, levels, evicted]. cacheLevels[0] on
\* an empty vector is undefined: the process dies, or the call touches stale
\* memory and returns with the chain as it was.
PutOutcomes(levels, key, value) ==
    IF levels = <<>>
    THEN {[crashed |-> c, levels |-> levels, evicted |-> <<>>] : c \in BOOLEAN}
    ELSE {[crashed |-> o.crashed,
           levels |-> [levels EXCEPT ![1] = o.level],
           evicted |-> o.evicted]
          : o \in CacheLevel_put(levels[1], key, value)}

put(key, value) ==
    /\ ~crashed
    /\ UNCHANGED <<unitVars, threadVars>>
    /\ \E o \in PutOutcomes(cacheLevels, key, value) :
        /\ MaxClock(o.levels) <= MaxTime
        /\ crashed' = o.crashed
        /\ cacheLevels' = IF o.crashed THEN cacheLevels ELSE o.levels
        /\ last' = [NoCall EXCEPT !.op = "put", !.key = key, !.val = value,
                                  !.evicted = o.evicted]

Next ==
    \/ \E a \in LevelArgs : addCacheLevel(a[1], a[2])
    \/ \E level \in RemoveArgs : removeCacheLevel(level)
    \/ \E key \in Keys : get(key)
    \/ \E key \in Keys, value \in Values : put(key, value)

Spec == Init /\ [][Next]_vars

\* ------------------------------------------------ chains with filled levels
\* get and put on a chain whose slower levels hold entries. The levels of a
\* seeded chain are CacheLevel objects as put leaves them: level 0 is new,
\* every slower level is new or has had one put.
SeedPuts == {<<"A", "x">>, <<"A", "">>, <<"B", "x">>}

SeedEntries(size, evictionPolicy) ==
    LET new == NewLevel(size, MakePolicy(evictionPolicy))
    IN {new} \cup {o.level : o \in UNION {CacheLevel_put(new, kv[1], kv[2]) :
                                             kv \in SeedPuts}}

SlowLevels == SeedEntries(1, "LRU") \cup SeedEntries(1, "LFU")

\* Level 0 of a seeded chain of two levels, and of three levels.
FastLevels ==
    {NewLevel(size, MakePolicy(p)) : size \in {1, 2}, p \in {"LRU", "LFU"}}
    \cup {NewLevel(1, MakePolicy("BOGUS"))}

FastLevels3 == {NewLevel(1, MakePolicy(p)) : p \in {"LRU", "LFU"}}

SeededChains ==
    {<<a, b>> : a \in FastLevels, b \in SlowLevels}
    \cup {<<a, b, c>> : a \in FastLevels3, b \in SlowLevels, c \in SlowLevels}

InitSeeded ==
    /\ cacheLevels \in SeededChains
    /\ crashed = FALSE
    /\ last = NoCall
    /\ NoUnit
    /\ NoThreads

NextSeeded ==
    \/ \E key \in Keys : get(key)
    \/ \E key \in Keys, value \in Values : put(key, value)

SpecSeeded == InitSeeded /\ [][NextSeeded]_vars

\* ------------------------------------------- one policy or level on its own
\* An EvictionPolicy object driven through access and evict, or a CacheLevel
\* object driven through get and put, with the history of its calls: clock
\* counts the calls, touch and count record each tracked key's latest access
\* and its number of accesses since it was last inserted.
InitUnit ==
    /\ cacheLevels = <<>>
    /\ crashed = FALSE
    /\ last = NoCall
    /\ NoThreads
    /\ clock = 0
    /\ touch = EmptyMap
    /\ count = EmptyMap
    /\ \/ policyObj \in {NewLRU, NewLFU} /\ levelObj = NewLevel(0, NullPolicy)
       \/ /\ policyObj = NullPolicy
          /\ levelObj \in {NewLevel(size, p) : size \in {1, 2}, p \in {NewLRU, NewLFU}}

\* The history after key was accessed at the call numbered clock.
Touched(key) ==
    /\ touch' = MapSet(touch, key, clock)
    /\ count' = MapSet(count, key, IF key \in DOMAIN count THEN count[key] + 1 ELSE 1)

\* policy.access(key) on the policy object.
PolicyAccess(key) ==
    /\ ~crashed /\ clock < MaxCalls
    /\ policyObj.kind # "NONE"
    /\ policyObj' = access(policyObj, key)
    /\ clock' = clock + 1
    /\ Touched(key)
    /\ last' = [NoCall EXCEPT !.op = "access", !.key = key]
    /\ UNCHANGED <<cacheLevels, crashed, levelObj, threadVars>>

\* policy.evict() on the policy object.
PolicyEvict ==
    /\ ~crashed /\ clock < MaxCalls
    /\ policyObj.kind # "NONE"
    /\ \E o \in evict(policyObj) :
        /\ crashed' = o.crashed
        /\ policyObj' = o.pol
        /\ touch' = MapErase(touch, o.ret)
        /\ count' = MapErase(count, o.ret)
        /\ last' = [NoCall EXCEPT !.op = "evict", !.ret = o.ret,
                                  !.n = Cardinality(Tracked(policyObj))]
    /\ clock' = clock + 1
    /\ UNCHANGED <<cacheLevels, levelObj, threadVars>>

\* level.get(key) on the level object.
LevelGet(key) ==
    /\ ~crashed /\ clock < MaxCalls
    /\ levelObj.evictionPolicy.kind # "NONE"
    /\ \E o \in CacheLevel_get(levelObj, key) :
        /\ crashed' = o.crashed
        /\ levelObj' = o.level
        /\ last' = [NoCall EXCEPT !.op = "level.get", !.key = key, !.ret = o.ret,
                                  !.hit = IF CacheLevel_contains(levelObj, key)
                                          THEN 0 ELSE 0 - 1]
    /\ IF CacheLevel_contains(levelObj, key)
       THEN Touched(key)
       ELSE UNCHANGED <<touch, count>>
    /\ clock' = clock + 1
    /\ UNCHANGED <<cacheLevels, policyObj, threadVars>>

\* level.put(key, value) on the level object.
LevelPut(key, value) ==
    /\ ~crashed /\ clock < MaxCalls
    /\ levelObj.evictionPolicy.kind # "NONE"
    /\ \E o \in CacheLevel_put(levelObj, key, value) :
        /\ crashed' = o.crashed
        /\ levelObj' = o.level
        /\ LET t == IF o.evicted = <<>> THEN touch ELSE MapErase(touch, o.evicted[1])
               c == IF o.evicted = <<>> THEN count ELSE MapErase(count, o.evicted[1])
           IN /\ touch' = MapSet(t, key, clock)
              /\ count' = MapSet(c, key, IF key \in DOMAIN c THEN c[key] + 1 ELSE 1)
        /\ last' = [NoCall EXCEPT !.op = "level.put", !.key = key, !.val = value,
                                  !.evicted = o.evicted]
    /\ clock' = clock + 1
    /\ UNCHANGED <<cacheLevels, policyObj, threadVars>>

NextUnit ==
    \/ \E key \in Keys : PolicyAccess(key)
    \/ PolicyEvict
    \/ \E key \in Keys : LevelGet(key)
    \/ \E key \in Keys, value \in Values : LevelPut(key, value)

SpecUnit == InitUnit /\ [][NextUnit]_vars

\* ----------------------------------------------------------------- threads
\* Callers of one MultilevelCacheSystem that run at the same time. A call is a
\* sequence of steps: one step per mutex it locks and per statement it runs
\* between two lock operations.
MaxThreads == 2

Threads == 1..MaxThreads

\* A thread that is in no call.
Idle == [pc |-> "idle", op |-> "none", key |-> "", val |-> "", n |-> 0,
         pol |-> "", i |-> 0, j |-> 0, lv |-> 0, value |-> "", evicted |-> "",
         ret |-> ""]

\* The calls a thread can make, with their arguments.
Calls ==
    {[Idle EXCEPT !.op = "add", !.n = 1, !.pol = "LRU"]}
    \cup {[Idle EXCEPT !.op = "remove", !.n = 1]}
    \cup {[Idle EXCEPT !.op = "get", !.key = "A"]}
    \cup {[Idle EXCEPT !.op = "put", !.key = k, !.val = "x"] : k \in {"A", "B"}}
    \cup {[Idle EXCEPT !.op = "display"]}

\* Mutant: get runs without taking the mutex of the system.
NeedsSystemLock_getUnlocked(op) == op # "get"

\* Every public method of MultilevelCacheSystem starts with
\* lock_guard<mutex> lock(mtx).
NeedsSystemLock(op) == op \in {"add", "remove", "get", "put", "display"}

\* lock_guard constructor on the mutex of level lv (or of its policy).
Locked(owners, lv, t) == [owners EXCEPT ![lv] = t]

\* Mutant: the mutex stays locked when the method returns.
Unlocked_leak(owners, lv) == owners

\* lock_guard destructor on the mutex of level lv (or of its policy).
Unlocked(owners, lv) == [owners EXCEPT ![lv] = 0]

\* The chains the threads start on: the chain of a new system, and a chain of
\* two levels whose level 1 was filled by put("A", "x").
ThreadChains ==
    {<<>>} \cup {<<NewLevel(1, NewLRU), o.level>> :
                    o \in CacheLevel_put(NewLevel(1, NewLFU), "A", "x")}

InitThreads ==
    /\ cacheLevels \in ThreadChains
    /\ crashed = FALSE
    /\ last = NoCall
    /\ NoUnit
    /\ threads = [t \in Threads |-> Idle]
    /\ mtx = 0
    /\ levelMtx = [n \in 1..Len(cacheLevels) |-> 0]
    /\ policyMtx = [n \in 1..Len(cacheLevels) |-> 0]
    /\ snap = cacheLevels

\* The position of thread t becomes r.
Goto(t, r) == threads' = [threads EXCEPT ![t] = r]

\* The level thread t works on is in the chain.
HasLevel(t) == threads[t].lv \in 1..Len(cacheLevels)

\* Thread t calls a public method and waits for the system mutex. Which
\* method, and with which arguments, shows only once the thread is inside:
\* the choice is made in LockSystem.
Call(t) ==
    /\ ~crashed
    /\ threads[t].pc = "idle"
    /\ Goto(t, [Idle EXCEPT !.pc = "lock"])
    /\ UNCHANGED <<cacheLevels, crashed, last, unitVars, mtx, levelMtx, policyMtx, snap>>

\* lock_guard<mutex> lock(mtx) of the public method c that thread t called.
LockSystem(t, c) ==
    /\ ~crashed
    /\ threads[t].pc = "lock"
    /\ c.op \in {"get", "put"} => MaxClock(cacheLevels) < MaxTime
    /\ c.op = "add" => Len(cacheLevels) < MaxLevels
    /\ NeedsSystemLock(c.op) => mtx = 0
    /\ mtx' = IF NeedsSystemLock(c.op) THEN t ELSE mtx
    /\ snap' = cacheLevels
    /\ Goto(t, [c EXCEPT
                  !.pc = CASE c.op = "add" -> "add"
                           [] c.op = "remove" -> "remove"
                           [] c.op = "get" -> "get_loop"
                           [] c.op = "put" -> "put_call"
                           [] OTHER -> "disp_loop"])
    /\ UNCHANGED <<cacheLevels, crashed, last, unitVars, levelMtx, policyMtx>>

\* The body of addCacheLevel.
AddLevel(t) ==
    /\ ~crashed
    /\ threads[t].pc = "add"
    /\ cacheLevels' = Append(cacheLevels,
                             NewLevel(threads[t].n, MakePolicy(threads[t].pol)))
    /\ levelMtx' = Append(levelMtx, 0)
    /\ policyMtx' = Append(policyMtx, 0)
    /\ Goto(t, [threads[t] EXCEPT !.pc = "unlock"])
    /\ UNCHANGED <<crashed, last, unitVars, mtx, snap>>

\* The body of removeCacheLevel: the level goes with its mutexes.
EraseLevel(t) ==
    /\ ~crashed
    /\ threads[t].pc = "remove"
    /\ cacheLevels' = RemoveLevel(cacheLevels, threads[t].n)
    /\ levelMtx' = RemoveLevel(levelMtx, threads[t].n)
    /\ policyMtx' = RemoveLevel(policyMtx, threads[t].n)
    /\ Goto(t, [threads[t] EXCEPT !.pc = "unlock"])
    /\ UNCHANGED <<crashed, last, unitVars, mtx, snap>>

\* The loop head of get: i < cacheLevels.size().
GetLoop(t) ==
    /\ ~crashed
    /\ threads[t].pc = "get_loop"
    /\ Goto(t, IF threads[t].i < Len(cacheLevels)
               THEN [threads[t] EXCEPT !.pc = "get_lock", !.lv = threads[t].i + 1]
               ELSE [threads[t] EXCEPT !.pc = "unlock", !.ret = ""])
    /\ UNCHANGED <<cacheLevels, crashed, last, unitVars, mtx, levelMtx, policyMtx, snap>>

\* Where a thread goes on once it holds the mutex it asked for.
AfterLock(pc) ==
    CASE pc = "get_lock" -> "get_find"
      [] pc = "put_lock" -> "put_check"
      [] pc = "prom_lock" -> "prom_update"
      [] pc = "disp_lock" -> "disp_print"
      [] pc = "get_access_lock" -> "get_access"
      [] pc = "put_evict_lock" -> "put_evict"
      [] OTHER -> "put_access"

\* lock_guard<mutex> lock(mtx) of CacheLevel::get, put, update and display.
LockLevel(t) ==
    /\ ~crashed
    /\ threads[t].pc \in {"get_lock", "put_lock", "prom_lock", "disp_lock"}
    /\ HasLevel(t)
    /\ levelMtx[threads[t].lv] = 0
    /\ levelMtx' = Locked(levelMtx, threads[t].lv, t)
    /\ Goto(t, [threads[t] EXCEPT !.pc = AfterLock(threads[t].pc)])
    /\ UNCHANGED <<cacheLevels, crashed, last, unitVars, mtx, policyMtx, snap>>

\* lock_guard<mutex> lock(mtx) of the policy's access and evict; through a
\* null policy pointer the call is undefined and the process dies.
LockPolicy(t) ==
    /\ ~crashed
    /\ threads[t].pc \in {"get_access_lock", "put_evict_lock", "put_access_lock"}
    /\ HasLevel(t)
    /\ IF cacheLevels[threads[t].lv].evictionPolicy.kind = "NONE"
       THEN /\ crashed' = TRUE
            /\ UNCHANGED <<threads, policyMtx>>
       ELSE /\ policyMtx[threads[t].lv] = 0
            /\ policyMtx' = Locked(policyMtx, threads[t].lv, t)
            /\ Goto(t, [threads[t] EXCEPT !.pc = AfterLock(threads[t].pc)])
            /\ UNCHANGED crashed
    /\ UNCHANGED <<cacheLevels, last, unitVars, mtx, levelMtx, snap>>

\* CacheLevel::get: data.find(key); a miss returns "" and unlocks the level.
GetFind(t) ==
    /\ ~crashed
    /\ threads[t].pc = "get_find"
    /\ HasLevel(t)
    /\ IF CacheLevel_contains(cacheLevels[threads[t].lv], threads[t].key)
       THEN /\ Goto(t, [threads[t] EXCEPT !.pc = "get_access_lock"])
            /\ UNCHANGED levelMtx
       ELSE /\ Goto(t, [threads[t] EXCEPT !.pc = "get_test", !.value = ""])
            /\ levelMtx' = Unlocked(levelMtx, threads[t].lv)
    /\ UNCHANGED <<cacheLevels, crashed, last, unitVars, mtx, policyMtx, snap>>

\* CacheLevel::get on a hit: access(key) under the policy mutex, then
\* return data[key], which unlocks the level.
GetAccess(t) ==
    /\ ~crashed
    /\ threads[t].pc = "get_access"
    /\ HasLevel(t)
    /\ LET level == cacheLevels[threads[t].lv]
       IN /\ cacheLevels' = [cacheLevels EXCEPT
                               ![threads[t].lv].evictionPolicy = access(@, threads[t].key)]
          /\ Goto(t, [threads[t] EXCEPT
                        !.pc = "get_test",
                        !.value = IF threads[t].key \in DOMAIN level.data
                                  THEN level.data[threads[t].key] ELSE ""])
    /\ policyMtx' = Unlocked(policyMtx, threads[t].lv)
    /\ levelMtx' = Unlocked(levelMtx, threads[t].lv)
    /\ UNCHANGED <<crashed, last, unitVars, mtx, snap>>

\* get: if (!value.empty()), the head of the promotion loop, return value;
\* otherwise ++i.
GetTest(t) ==
    /\ ~crashed
    /\ threads[t].pc = "get_test"
    /\ Goto(t, IF threads[t].value # ""
               THEN IF threads[t].i > 0
                    THEN [threads[t] EXCEPT !.pc = "prom_lock", !.j = threads[t].i,
                                            !.lv = threads[t].i]
                    ELSE [threads[t] EXCEPT !.pc = "unlock", !.ret = threads[t].value]
               ELSE [threads[t] EXCEPT !.pc = "get_loop", !.i = threads[t].i + 1])
    /\ UNCHANGED <<cacheLevels, crashed, last, unitVars, mtx, levelMtx, policyMtx, snap>>

\* cacheLevels[j - 1]->update(key, value), --j, and the loop test j > 0.
PromUpdate(t) ==
    /\ ~crashed
    /\ threads[t].pc = "prom_update"
    /\ HasLevel(t)
    /\ cacheLevels' = [cacheLevels EXCEPT
                         ![threads[t].lv] = CacheLevel_update(@, threads[t].key,
                                                              threads[t].value)]
    /\ levelMtx' = Unlocked(levelMtx, threads[t].lv)
    /\ Goto(t, IF threads[t].j - 1 > 0
               THEN [threads[t] EXCEPT !.pc = "prom_lock", !.j = threads[t].j - 1,
                                       !.lv = threads[t].j - 1]
               ELSE [threads[t] EXCEPT !.pc = "unlock", !.ret = threads[t].value])
    /\ UNCHANGED <<crashed, last, unitVars, mtx, policyMtx, snap>>

\* put: cacheLevels[0]; on an empty vector the process dies or the call
\* returns without effect.
PutCall(t) ==
    /\ ~crashed
    /\ threads[t].pc = "put_call"
    /\ IF cacheLevels = <<>>
       THEN \/ crashed' = TRUE /\ UNCHANGED threads
            \/ Goto(t, [threads[t] EXCEPT !.pc = "unlock"]) /\ UNCHANGED crashed
       ELSE /\ Goto(t, [threads[t] EXCEPT !.pc = "put_lock", !.lv = 1])
            /\ UNCHANGED crashed
    /\ UNCHANGED <<cacheLevels, last, unitVars, mtx, levelMtx, policyMtx, snap>>

\* CacheLevel::put: if (data.size() >= size).
PutCheck(t) ==
    /\ ~crashed
    /\ threads[t].pc = "put_check"
    /\ HasLevel(t)
    /\ LET level == cacheLevels[threads[t].lv]
       IN Goto(t, [threads[t] EXCEPT
                     !.pc = IF SizeReached(Cardinality(DOMAIN level.data), level.size)
                            THEN "put_evict_lock" ELSE "put_store"])
    /\ UNCHANGED <<cacheLevels, crashed, last, unitVars, mtx, levelMtx, policyMtx, snap>>

\* string evicted = evictionPolicy->evict().
PutEvict(t) ==
    /\ ~crashed
    /\ threads[t].pc = "put_evict"
    /\ HasLevel(t)
    /\ \E o \in evict(cacheLevels[threads[t].lv].evictionPolicy) :
        /\ crashed' = o.crashed
        /\ IF o.crashed
           THEN UNCHANGED <<cacheLevels, threads, policyMtx>>
           ELSE /\ cacheLevels' = [cacheLevels EXCEPT
                                     ![threads[t].lv].evictionPolicy = o.pol]
                /\ Goto(t, [threads[t] EXCEPT !.pc = "put_erase", !.evicted = o.ret])
                /\ policyMtx' = Unlocked(policyMtx, threads[t].lv)
    /\ UNCHANGED <<last, unitVars, mtx, levelMtx, snap>>

\* data.erase(evicted).
PutErase(t) ==
    /\ ~crashed
    /\ threads[t].pc = "put_erase"
    /\ HasLevel(t)
    /\ cacheLevels' = [cacheLevels EXCEPT
                         ![threads[t].lv].data = MapErase(@, threads[t].evicted)]
    /\ Goto(t, [threads[t] EXCEPT !.pc = "put_store"])
    /\ UNCHANGED <<crashed, last, unitVars, mtx, levelMtx, policyMtx, snap>>

\* data[key] = value.
PutStore(t) ==
    /\ ~crashed
    /\ threads[t].pc = "put_store"
    /\ HasLevel(t)
    /\ cacheLevels' = [cacheLevels EXCEPT
                         ![threads[t].lv].data = MapSet(@, threads[t].key, threads[t].val)]
    /\ Goto(t, [threads[t] EXCEPT !.pc = "put_access_lock"])
    /\ UNCHANGED <<crashed, last, unitVars, mtx, levelMtx, policyMtx, snap>>

\* evictionPolicy->access(key) and the return of CacheLevel::put.
PutAccess(t) ==
    /\ ~crashed
    /\ threads[t].pc = "put_access"
    /\ HasLevel(t)
    /\ cacheLevels' = [cacheLevels EXCEPT
                         ![threads[t].lv].evictionPolicy = access(@, threads[t].key)]
    /\ policyMtx' = Unlocked(policyMtx, threads[t].lv)
    /\ levelMtx' = Unlocked(levelMtx, threads[t].lv)
    /\ Goto(t, [threads[t] EXCEPT !.pc = "unlock"])
    /\ UNCHANGED <<crashed, last, unitVars, mtx, snap>>

\* The loop head of displayCache.
DispLoop(t) ==
    /\ ~crashed
    /\ threads[t].pc = "disp_loop"
    /\ Goto(t, IF threads[t].i < Len(cacheLevels)
               THEN [threads[t] EXCEPT !.pc = "disp_lock", !.lv = threads[t].i + 1]
               ELSE [threads[t] EXCEPT !.pc = "unlock"])
    /\ UNCHANGED <<cacheLevels, crashed, last, unitVars, mtx, levelMtx, policyMtx, snap>>

\* CacheLevel::display: the mapping is printed and the level unlocked.
DispPrint(t) ==
    /\ ~crashed
    /\ threads[t].pc = "disp_print"
    /\ HasLevel(t)
    /\ levelMtx' = Unlocked(levelMtx, threads[t].lv)
    /\ Goto(t, [threads[t] EXCEPT !.pc = "disp_loop", !.i = threads[t].i + 1])
    /\ UNCHANGED <<cacheLevels, crashed, last, unitVars, mtx, policyMtx, snap>>

\* The public method returns: its lock_guard unlocks the system mutex.
UnlockSystem(t) ==
    /\ ~crashed
    /\ threads[t].pc = "unlock"
    /\ mtx' = IF mtx = t THEN 0 ELSE mtx
    /\ Goto(t, Idle)
    /\ UNCHANGED <<cacheLevels, crashed, last, unitVars, levelMtx, policyMtx, snap>>

\* A step of thread t inside a call it has made.
Run(t) ==
    \/ \E c \in Calls : LockSystem(t, c)
    \/ AddLevel(t)
    \/ EraseLevel(t)
    \/ GetLoop(t)
    \/ LockLevel(t)
    \/ LockPolicy(t)
    \/ GetFind(t)
    \/ GetAccess(t)
    \/ GetTest(t)
    \/ PromUpdate(t)
    \/ PutCall(t)
    \/ PutCheck(t)
    \/ PutEvict(t)
    \/ PutErase(t)
    \/ PutStore(t)
    \/ PutAccess(t)
    \/ DispLoop(t)
    \/ DispPrint(t)
    \/ UnlockSystem(t)

NextThreads ==
    \E t \in Threads :
        \/ Call(t)
        \/ Run(t)

SpecThreads == InitThreads /\ [][NextThreads]_vars

\* Fair scheduling: a thread that can go on does go on, and a thread that
\* finds the system mutex free again and again gets it.
SpecThreadsFair ==
    /\ SpecThreads
    /\ \A t \in Threads : WF_vars(Run(t)) /\ SF_vars(\E c \in Calls : LockSystem(t, c))

\* ------------------------------------------------------------------ claims
\* The call named by `last` returned to its caller.
Returned(op) == last.op = op /\ ~crashed

KeysOf(level) == DOMAIN level.data

\* C1. Round trip: a get(k) that directly follows a returned put(k, v) on a
\* chain with at least one level returns v.
C1_RoundTrip ==
    (Returned("get") /\ last.rt # <<>>) => last.ret = last.rt[1]

\* C1 witness: a get that followed a put of the same key on a level that then
\* held two keys, and returned the stored non-empty value.
C1_Witness ==
    /\ Returned("get") /\ last.rt = <<"x">> /\ last.ret = "x"
    /\ Cardinality(KeysOf(cacheLevels[1])) = 2

\* C2. Capacity: when a put has returned, every level built with a positive
\* size and the policy LRU or LFU holds at most `size` keys.
C2_Capacity ==
    Returned("put") =>
        \A i \in 1..Len(cacheLevels) :
            (cacheLevels[i].size > 0
               /\ cacheLevels[i].evictionPolicy.kind \in {"LRU", "LFU"})
            => Cardinality(KeysOf(cacheLevels[i])) <= cacheLevels[i].size

\* C2 witness: a put that evicted a victim from a level of size 2, which is
\* full again afterwards.
C2_Witness ==
    /\ Returned("put") /\ last.evicted # <<>>
    /\ cacheLevels # <<>>
    /\ cacheLevels[1].size = 2
    /\ Cardinality(KeysOf(cacheLevels[1])) = 2

\* C3. Policy/mapping agreement: in every state each level's policy tracks
\* exactly the keys of the level's mapping (LRU: the access order list and
\* its iterator map; LFU: the count map and the sequence map).
C3_PolicyAgreesWithMapping ==
    \A i \in 1..Len(cacheLevels) :
        LET p == cacheLevels[i].evictionPolicy
        IN /\ Tracked(p) = KeysOf(cacheLevels[i])
           /\ p.cacheMap = {p.accessOrder[j] : j \in 1..Len(p.accessOrder)}
           /\ DOMAIN p.keyOrder = DOMAIN p.frequencyMap

\* C3 witness: an LFU level of size 2 that evicted a key and holds two.
C3_Witness ==
    /\ Returned("put") /\ last.evicted # <<>>
    /\ cacheLevels # <<>>
    /\ cacheLevels[1].evictionPolicy.kind = "LFU"
    /\ Cardinality(KeysOf(cacheLevels[1])) = 2

\* The tracked key accessed least recently, by the history of calls.
Oldest(S) == CHOOSE v \in S : \A k \in S : touch[v] <= touch[k]

\* C4. LRU: the access order list holds each tracked key once, oldest access
\* first; evict on a non-empty policy removes and returns the tracked key
\* whose latest access is the oldest; access of a tracked key moves it to the
\* most-recent end; a put into a full LRU level removes the key of the level
\* least recently touched by put or get-hit.
C4_LRUEvictsLeastRecent ==
    [][LET p == policyObj
           q == policyObj'
           l == levelObj
       IN /\ (q.kind = "LRU" /\ ~crashed') =>
                /\ DOMAIN touch' = Tracked(q)
                /\ Len(q.accessOrder) = Cardinality(Tracked(q))
                /\ \A i, j \in 1..Len(q.accessOrder) :
                      i < j => touch'[q.accessOrder[i]] < touch'[q.accessOrder[j]]
          /\ (last'.op = "evict" /\ p.kind = "LRU" /\ Tracked(p) # {}) =>
                /\ ~crashed'
                /\ last'.ret = Oldest(Tracked(p))
                /\ Tracked(q) = Tracked(p) \ {last'.ret}
          /\ (last'.op = "access" /\ p.kind = "LRU" /\ last'.key \in Tracked(p)) =>
                /\ q.accessOrder[Len(q.accessOrder)] = last'.key
                /\ Tracked(q) = Tracked(p)
          /\ (last'.op = "level.put" /\ l.evictionPolicy.kind = "LRU" /\ ~crashed'
                /\ Cardinality(KeysOf(l)) >= l.size) =>
                /\ last'.evicted = <<Oldest(KeysOf(l))>>
                /\ KeysOf(levelObj') = (KeysOf(l) \ {Oldest(KeysOf(l))}) \cup {last'.key}
      ]_vars

\* C4 witness: an LRU policy tracked three keys, one of them accessed twice,
\* and evict returned one of them.
C4_Witness ==
    /\ Returned("evict") /\ policyObj.kind = "LRU"
    /\ last.n = 3 /\ clock = 5
    /\ Len(policyObj.accessOrder) = 2

\* The tracked keys of S that the LFU rule may choose, by the history of
\* calls: the smallest count, and among those the oldest latest access.
LeastFrequent(S) ==
    CHOOSE v \in S : \A k \in S :
        count[v] < count[k] \/ (count[v] = count[k] /\ touch[v] <= touch[k])

\* C5. LFU: evict on a non-empty policy removes and returns the tracked key
\* with the fewest accesses since it was last inserted, and among those the
\* one whose latest access is the oldest; the victim leaves both maps, so the
\* count of every tracked key is its number of accesses since it was last
\* inserted (1 after the first access that follows an eviction).
C5_LFUEvictsLeastFrequent ==
    [][LET p == policyObj
           q == policyObj'
       IN /\ (last'.op = "evict" /\ p.kind = "LFU" /\ Tracked(p) # {}) =>
                /\ ~crashed'
                /\ last'.ret = LeastFrequent(Tracked(p))
                /\ q.frequencyMap = MapErase(p.frequencyMap, last'.ret)
                /\ q.keyOrder = MapErase(p.keyOrder, last'.ret)
          /\ (q.kind = "LFU") =>
                /\ q.frequencyMap = count'
                /\ DOMAIN q.keyOrder = DOMAIN touch'
                /\ \A a, b \in DOMAIN touch' :
                      touch'[a] < touch'[b] <=> q.keyOrder[a] < q.keyOrder[b]
          /\ (last'.op = "access" /\ p.kind = "LFU" /\ last'.key \notin Tracked(p)) =>
                q.frequencyMap[last'.key] = 1
      ]_vars

\* C5 witness: an LFU policy tracked three keys, evict returned one of them,
\* and a key accessed twice, whose latest access is older than that of a key
\* accessed once, stays tracked.
C5_Witness ==
    /\ Returned("evict") /\ policyObj.kind = "LFU"
    /\ last.n = 3 /\ last.ret \in Keys
    /\ \E a, b \in DOMAIN count :
          count[a] = 2 /\ count[b] = 1 /\ touch[a] < touch[b]

\* C6. Promotion: a get(k) that returns from index i > 0, where level i maps
\* k to v, returns v and leaves k mapped to v in every level 0..i; a get(k)
\* that directly follows it returns v from index 0.
C6_Promotion ==
    [][/\ (last'.op = "get" /\ ~crashed' /\ last'.hit > 0) =>
            LET k == last'.key
                v == cacheLevels[last'.hit + 1].data[k]
            IN /\ last'.ret = v
               /\ \A n \in 1..(last'.hit + 1) :
                     /\ k \in KeysOf(cacheLevels'[n])
                     /\ cacheLevels'[n].data[k] = v
               /\ \A n \in 1..last'.hit :
                     k \notin KeysOf(cacheLevels[n]) \/ cacheLevels[n].data[k] = ""
       /\ (last'.op = "get" /\ ~crashed' /\ last'.pr # <<>>) =>
            (last'.hit = 0 /\ last'.ret = last'.pr[1])
      ]_vars

\* C6 witness: on a three-level chain a get returned "x" from index 2 and the
\* get of the same key that followed returned from index 0.
C6_Witness ==
    /\ Returned("get") /\ last.pr = <<"x", 2>> /\ last.hit = 0
    /\ \A n \in 1..3 : cacheLevels[n].data[last.key] = "x"

\* C7. put targets level 0 only: a put step leaves the number of levels and
\* every level at index >= 1 (mapping and policy state) as they were.
C7_PutTouchesLevel0Only ==
    [][(last'.op = "put" /\ ~crashed') =>
          /\ Len(cacheLevels') = Len(cacheLevels)
          /\ \A i \in 2..Len(cacheLevels) : cacheLevels'[i] = cacheLevels[i]]_vars

\* C7 witness: a put on a two-level chain that evicted a victim from level 0.
C7_Witness ==
    /\ Returned("put") /\ last.evicted # <<>>
    /\ Len(cacheLevels) = 2
    /\ last.evicted[1] \in Keys

\* C8 (as claimed). Every level of the chain has an eviction policy: a call
\* of addCacheLevel with an unrecognized policy name appends nothing.
C8_NoLevelWithoutPolicy ==
    \A i \in 1..Len(cacheLevels) :
        cacheLevels[i].evictionPolicy.kind \in {"LRU", "LFU"}

\* What get returns for a key found in no level.
MissResult == ""

\* C9 (as claimed). A returned get(k) for a key k that a level stores never
\* yields the representation of a miss.
C9_StoredValueIsNotAMiss ==
    (Returned("get") /\ \E i \in 1..Len(cacheLevels) : last.key \in KeysOf(cacheLevels[i]))
    => last.ret # MissResult

\* C10. removeCacheLevel with an index outside 1..levelCount changes nothing
\* of the chain and raises no error.
C10_RemoveOutOfRangeIsNoOp ==
    [][(last'.op = "remove" /\ (last'.n < 1 \/ last'.n > Len(cacheLevels)))
          => (cacheLevels' = cacheLevels /\ ~crashed')]_vars

\* C10 witness: removeCacheLevel(3) was called on a two-level chain whose
\* level 0 holds a key.
C10_Witness ==
    /\ Returned("remove") /\ last.n = 3
    /\ Len(cacheLevels) = 2
    /\ KeysOf(cacheLevels[1]) # {}

\* C13. Slower tiers stay empty: on a chain that started empty, every level
\* at index >= 1 has an empty mapping, and a returned get that found its key
\* found it at index 0 (so the promotion loop never writes anything).
C13_SlowerTiersStayEmpty ==
    /\ \A i \in 2..Len(cacheLevels) : KeysOf(cacheLevels[i]) = {}
    /\ Returned("get") => last.hit \in {0 - 1, 0}

\* C13 witness: a get returned a stored value from index 0 of a two-level
\* chain whose level 0 is full with two keys.
C13_Witness ==
    /\ Returned("get") /\ last.hit = 0 /\ last.ret = "x"
    /\ Len(cacheLevels) = 2
    /\ cacheLevels[1].size = 2
    /\ Cardinality(KeysOf(cacheLevels[1])) = 2
    /\ KeysOf(cacheLevels[2]) = {}

\* A put(key, ...) on level 0, built with a positive size and the policy LRU
\* or LFU, that holds `size` keys or more and already holds the key.
OverwriteAtCapacity(levels, key) ==
    /\ levels # <<>>
    /\ levels[1].size > 0
    /\ levels[1].evictionPolicy.kind \in {"LRU", "LFU"}
    /\ Cardinality(KeysOf(levels[1])) >= levels[1].size
    /\ key \in KeysOf(levels[1])

\* C14 (as claimed). Eviction on overwrite: a put(k, v) on a level at
\* capacity that already holds k performs one policy eviction, and the
\* evicted key is a key other than k.
C14_OverwriteEvictsAnotherKey ==
    [][(last'.op = "put" /\ ~crashed' /\ OverwriteAtCapacity(cacheLevels, last'.key))
          => /\ Len(last'.evicted) = 1
             /\ last'.evicted[1] # last'.key]_vars

\* C14 (amended). A put(k, v) on a level at capacity that already holds k
\* performs one policy eviction; the victim is the key the policy selects
\* among the keys of the level, k itself included. The level ends with its
\* former keys without the victim, plus k, and k maps to v.
C14_OverwriteEvictsPolicyVictim ==
    [][(last'.op = "put" /\ ~crashed' /\ OverwriteAtCapacity(cacheLevels, last'.key))
          => /\ Len(last'.evicted) = 1
             /\ last'.evicted[1] \in KeysOf(cacheLevels[1])
             /\ last'.evicted[1] \in {o.ret : o \in evict(cacheLevels[1].evictionPolicy)}
             /\ KeysOf(cacheLevels'[1]) =
                  (KeysOf(cacheLevels[1]) \ {last'.evicted[1]}) \cup {last'.key}
             /\ cacheLevels'[1].data[last'.key] = last'.val]_vars

\* C14 witness: an overwrite on a full level of size 2 evicted the overwritten
\* key itself, and the level still holds its two keys.
C14_Witness ==
    /\ Returned("put") /\ last.evicted = <<last.key>>
    /\ cacheLevels # <<>>
    /\ cacheLevels[1].size = 2
    /\ Cardinality(KeysOf(cacheLevels[1])) = 2

C16_EvictsTrackedKeyOnly ==
    [][(last'.op = "put" /\ cacheLevels # <<>>
          /\ cacheLevels[1].size > 0
          /\ cacheLevels[1].evictionPolicy.kind \in {"LRU", "LFU"})
          => /\ ~crashed'
             /\ last'.evicted # <<>> =>
                  /\ Tracked(cacheLevels[1].evictionPolicy) # {}
                  /\ last'.evicted[1] \in KeysOf(cacheLevels[1])
                  /\ last'.evicted[1] \notin KeysOf(cacheLevels'[1]) \ {last'.key}]_vars

\* C16 witness: a put on an LRU level of size 1 evicted the one key the level
\* held and stored another key.
C16_Witness ==
    /\ Returned("put") /\ last.evicted # <<>>
    /\ cacheLevels # <<>>
    /\ cacheLevels[1].size = 1
    /\ cacheLevels[1].evictionPolicy.kind = "LRU"
    /\ last.evicted[1] \in Keys \ {last.key}
    /\ KeysOf(cacheLevels[1]) = {last.key}

\* The index (from 1) of the first level whose mapping holds the key.
FirstHolding(levels, key) ==
    CHOOSE n \in 1..Len(levels) :
        /\ key \in KeysOf(levels[n])
        /\ \A m \in 1..(n - 1) : key \notin KeysOf(levels[m])

\* Policy state q is policy state p after exactly one access of a tracked
\* key: LRU, the key is the most recent one and the other keys keep their
\* order; LFU, the count of the key is one higher, its sequence number is
\* the highest, and the other keys keep count and sequence number.
RefreshedOnce(p, q, key) ==
    /\ q.kind = p.kind
    /\ Tracked(q) = Tracked(p)
    /\ p.kind = "LRU" =>
         LET NotKey(x) == x # key
         IN /\ q.accessOrder[Len(q.accessOrder)] = key
            /\ SelectSeq(q.accessOrder, NotKey) = SelectSeq(p.accessOrder, NotKey)
            /\ Len(q.accessOrder) = Len(p.accessOrder)
    /\ p.kind = "LFU" =>
         /\ q.frequencyMap[key] = p.frequencyMap[key] + 1
         /\ \A x \in Tracked(p) \ {key} :
               /\ q.frequencyMap[x] = p.frequencyMap[x]
               /\ q.keyOrder[x] = p.keyOrder[x]
               /\ q.keyOrder[x] < q.keyOrder[key]

\* C17. A get hit refreshes the key at the level of the hit only: a returned
\* get(k) of a key held by the chain records one access of k in the policy
\* of the first level holding k and returns from that level or reports a
\* miss; no level loses a key and every other level keeps its policy state.
\* On an LRU level with two keys or more, the put that directly follows a hit
\* get(k) does not evict k.
C17_HitRefreshesHitLevelOnly ==
    [][/\ (last'.op = "get" /\ ~crashed'
            /\ \E n \in 1..Len(cacheLevels) : last'.key \in KeysOf(cacheLevels[n]))
          => LET i == FirstHolding(cacheLevels, last'.key)
             IN /\ last'.hit \in {0 - 1, i - 1}
                /\ RefreshedOnce(cacheLevels[i].evictionPolicy,
                                 cacheLevels'[i].evictionPolicy, last'.key)
                /\ Len(cacheLevels') = Len(cacheLevels)
                /\ \A n \in 1..Len(cacheLevels) :
                      /\ KeysOf(cacheLevels[n]) \subseteq KeysOf(cacheLevels'[n])
                      /\ n # i => cacheLevels'[n].evictionPolicy
                                    = cacheLevels[n].evictionPolicy
       /\ (last.op = "get" /\ last'.op = "put" /\ ~crashed'
            /\ cacheLevels # <<>>
            /\ cacheLevels[1].evictionPolicy.kind = "LRU"
            /\ last.key \in KeysOf(cacheLevels[1])
            /\ Cardinality(KeysOf(cacheLevels[1])) >= 2
            /\ last'.evicted # <<>>)
          => last'.evicted[1] # last.key
      ]_vars

\* C17 witness: a get returned the value of A from an LRU level of size 2
\* holding A and B, on a two-level chain, and A is now the most recent key.
C17_Witness ==
    /\ Returned("get") /\ last.key = "A" /\ last.hit = 0 /\ last.ret = "x"
    /\ Len(cacheLevels) = 2
    /\ cacheLevels[1].size = 2
    /\ cacheLevels[1].evictionPolicy.accessOrder = <<"B", "A">>

C19_MissChangesNothing ==
    [][(last'.op = "get"
          /\ \A n \in 1..Len(cacheLevels) : last'.key \notin KeysOf(cacheLevels[n]))
          => /\ ~crashed'
             /\ last'.ret = MissResult
             /\ last'.hit = 0 - 1
             /\ cacheLevels' = cacheLevels]_vars

\* C19 witness: a get reported a miss for a key that neither level of a
\* two-level chain holds, while level 0 holds two other keys.
C19_Witness ==
    /\ Returned("get") /\ last.ret = MissResult /\ last.hit = 0 - 1
    /\ Len(cacheLevels) = 2
    /\ \A n \in 1..2 : last.key \notin KeysOf(cacheLevels[n])
    /\ Cardinality(KeysOf(cacheLevels[1])) = 2

\* In LFU policy state p the tracked keys have pairwise different sequence
\* numbers and counts of 1 or more, and evict has one outcome.
VictimDetermined(p) ==
    /\ DOMAIN p.keyOrder = DOMAIN p.frequencyMap
    /\ \A k1, k2 \in Tracked(p) : k1 # k2 => p.keyOrder[k1] # p.keyOrder[k2]
    /\ \A k \in Tracked(p) : p.frequencyMap[k] >= 1
    /\ Cardinality(LFU_evict(p)) = 1

\* C20. The LFU victim is determined: after any accesses and evictions of an
\* LFU policy, called directly or by the level that owns it, the tracked keys
\* have pairwise different sequence numbers and counts of 1 or more, and
\* evict has one outcome whatever order the map is visited in.
C20_LFUVictimIsDetermined ==
    /\ policyObj.kind = "LFU" => VictimDetermined(policyObj)
    /\ levelObj.evictionPolicy.kind = "LFU" => VictimDetermined(levelObj.evictionPolicy)

\* C20 witness: after five accesses or more an LFU policy tracks three keys,
\* two of them with the same count, and one key came in with count 1 after
\* three other accesses.
C20_Witness ==
    /\ Returned("access") /\ policyObj.kind = "LFU"
    /\ Tracked(policyObj) = Keys
    /\ policyObj.frequencyMap["A"] = policyObj.frequencyMap["B"]
    /\ policyObj.currentTime > Cardinality(Keys) + 1
    /\ \E k \in Keys : policyObj.frequencyMap[k] = 1 /\ policyObj.keyOrder[k] > 2

\* Thread t is inside a public method: it has passed the lock_guard at the
\* start of the method and has not returned yet.
Inside(t) == threads[t].pc \notin {"idle", "lock"}

\* What the call of thread record th does to the chain `levels` when it runs
\* alone from start to end: the chains it can leave, each with the value
\* returned.
AtomicResults(levels, th) ==
    CASE th.op = "add" ->
           {[levels |-> Append(levels, NewLevel(th.n, MakePolicy(th.pol))), ret |-> ""]}
      [] th.op = "remove" ->
           {[levels |-> RemoveLevel(levels, th.n), ret |-> ""]}
      [] th.op = "get" ->
           {[levels |-> o.levels, ret |-> o.ret] :
              o \in {x \in GetFrom(levels, 0, th.key) : ~x.crashed}}
      [] th.op = "put" ->
           {[levels |-> o.levels, ret |-> ""] :
              o \in {x \in PutOutcomes(levels, th.key, th.val) : ~x.crashed}}
      [] OTHER -> {[levels |-> levels, ret |-> ""]}

\* C11. Serialization: at most one thread at a time is inside a public
\* method of the system, nested level and policy work included; a thread
\* enters only when no other thread is inside, so it finds no half-applied
\* update; and when a call returns, the chain and the returned value are
\* those of the call run alone on the chain the call found.
C11_Serialization ==
    [][/\ Cardinality({t \in Threads : Inside(t)}) <= 1
       /\ Cardinality({t \in Threads : Inside(t)'}) <= 1
       /\ \A t \in Threads :
             /\ (threads[t].pc = "lock" /\ threads'[t].pc # "lock")
                => /\ \A u \in Threads \ {t} : ~Inside(u)
                   /\ \A lv \in 1..Len(levelMtx) : levelMtx[lv] = 0 /\ policyMtx[lv] = 0
             /\ (threads[t].pc = "unlock" /\ threads'[t].pc = "idle")
                => [levels |-> cacheLevels, ret |-> threads[t].ret]
                     \in AtomicResults(snap, threads[t])
      ]_vars

\* C11 witness: thread 1 is in the middle of a put that has erased its
\* victim and not yet stored the new pair, while thread 2 has made a call and
\* waits for the system mutex.
C11_Witness ==
    /\ ~crashed
    /\ threads[1].pc = "put_store" /\ threads[1].evicted \in {"A", "B"}
    /\ cacheLevels[1].data = EmptyMap
    /\ threads[2].pc = "lock"
    /\ mtx = 1

\* Thread t holds no mutex it is about to lock, the mutexes it holds were
\* taken in the order system, level, policy of that level, and it holds at
\* most one level mutex.
LockOrder(t) ==
    /\ threads[t].pc = "lock" => mtx # t
    /\ (threads[t].pc \in {"get_lock", "put_lock", "prom_lock", "disp_lock"}
          /\ HasLevel(t)) => levelMtx[threads[t].lv] # t
    /\ (threads[t].pc \in {"get_access_lock", "put_evict_lock", "put_access_lock"}
          /\ HasLevel(t)) => policyMtx[threads[t].lv] # t
    /\ \A lv \in 1..Len(levelMtx) :
          /\ levelMtx[lv] = t => mtx = t
          /\ policyMtx[lv] = t => levelMtx[lv] = t
    /\ Cardinality({lv \in 1..Len(levelMtx) : levelMtx[lv] = t}) <= 1

====
